---- MODULE Spec2Model ----
(***************************************************************************)
(* The Ichiglyph tools: the two interpreters (interpreter/ichiglyph and    *)
(* interpreter/brainfuck), which share one run loop and one data memory    *)
(* and differ in the opcode width and the decode table only.               *)
(*                                                                         *)
(* A state is one point of main()'s execution: the mapped source file, the *)
(* instruction pointer, the data pointer, the data memory, the standard    *)
(* streams and the process status.  One action is one dispatch of the      *)
(* switch in the run loop, with the bracket scan it contains.              *)
(***************************************************************************)
EXTENDS Integers, Sequences, FiniteSets, TLC

VARIABLES
    engine,     \* which tool runs: the interpreter "ichiglyph" or "brainfuck",
                \*   or the transpiler "ig2bf" or "bf2ig"
    source,     \* the bytes of the source file (the mmap'ed region and its tail)
    stdin,      \* the bytes not yet read from standard input
    limit,      \* how many dispatches of a run are explored
    pc,         \* "load", "run", "done" (main returned), "killed" (signal)
    ip,         \* size_t ip
    dp,         \* size_t dp
    data,       \* data_t data: [data |-> buffer, size |-> data->size,
                \*   allocated |-> the length of the block data->data points to]
    heap,       \* "ok", or "corrupt" after a write outside the buffer
    stdout,     \* the bytes written to standard output
    stderr,     \* the messages written to standard error
    ret,        \* the exit status of the process (-1 while it runs)
    consumed,   \* the bytes read from standard input so far
    hits,       \* hits[i]: how many times the instruction at index i was dispatched
    seen,       \* seen[i]: the cell at dp when index i was last dispatched (-1: never)
    last,       \* what the previous dispatch was and what it saw
    written,    \* the data pointer values a cell operation has written at
    twin        \* what an earlier run on the untranslated program left, if any

vars == <<engine, source, stdin, limit, pc, ip, dp, data, heap, stdout,
          stderr, ret, consumed, hits, seen, last, written, twin>>

(***************************************************************************)
(* Bounds of the model.                                                    *)
(***************************************************************************)
MaxLen == 3         \* opcode units of the exhaustively enumerated programs
MaxInput == 1       \* bytes of the enumerated input streams
MaxDp == 3          \* the data pointer stays within MaxDp cells of 0 (either side)
MaxSteps == 12      \* dispatches explored per run of an enumerated program
LoopSteps == 520    \* dispatches explored per run of a counted loop
ScanLen == 5        \* opcode units of the programs the scans are applied to
DataSteps == 5      \* calls explored per sequence of calls to the data memory
MaxRuns == 3        \* transpiler runs chained, each on the output of the one before

(***************************************************************************)
(* Program constants.                                                      *)
(***************************************************************************)
DATA_GRANULARITY == 32768

\* size_t.  The platform's size_t is 64 bits wide; the model keeps unsigned
\* wrap-around arithmetic on a 30-bit word, so that dp + 1 + DATA_GRANULARITY
\* is representable before it is reduced.
SIZE_MODULUS == 2 ^ 30
SIZE_MAX == SIZE_MODULUS - 1

\* uint8_t
UINT8_MODULUS == 2 ^ 8
Byte == 0 .. (UINT8_MODULUS - 1)

\* instruction_t
INST_DP_INC == "INST_DP_INC"
INST_DP_DEC == "INST_DP_DEC"
INST_VAL_INC == "INST_VAL_INC"
INST_VAL_DEC == "INST_VAL_DEC"
INST_VAL_OUTPUT == "INST_VAL_OUTPUT"
INST_VAL_ACCEPT == "INST_VAL_ACCEPT"
INST_JMP_FORWARD == "INST_JMP_FORWARD"
INST_JMP_BACK == "INST_JMP_BACK"
INST_NOP == "INST_NOP"

instruction_t ==
    {INST_DP_INC, INST_DP_DEC, INST_VAL_INC, INST_VAL_DEC, INST_VAL_OUTPUT,
     INST_VAL_ACCEPT, INST_JMP_FORWARD, INST_JMP_BACK, INST_NOP}

(***************************************************************************)
(* Decoding.  A byte of the source is a one-character string.              *)
(***************************************************************************)

\* ichiglyph_opcode_decode with the default of the last inner switch lost: an
\* opcode that starts with 1 and is not 1l falls into the case of 1I
ichiglyph_opcode_decode_NoDefault(opcode) ==
    CASE opcode[1] = "l" ->
            (CASE opcode[2] = "l" -> INST_DP_INC
               [] opcode[2] = "I" -> INST_DP_DEC
               [] opcode[2] = "1" -> INST_JMP_FORWARD
               [] OTHER -> INST_NOP)
      [] opcode[1] = "I" ->
            (CASE opcode[2] = "l" -> INST_VAL_INC
               [] opcode[2] = "I" -> INST_VAL_DEC
               [] opcode[2] = "1" -> INST_JMP_BACK
               [] OTHER -> INST_NOP)
      [] opcode[1] = "1" ->
            (CASE opcode[2] = "l" -> INST_VAL_OUTPUT
               [] OTHER -> INST_VAL_ACCEPT)
      [] OTHER -> INST_NOP

\* interpreter/ichiglyph/ichiglyph.c: opcode_decode(ichiglyph_opcode_t)
ichiglyph_opcode_decode(opcode) ==
    CASE opcode[1] = "l" ->
            (CASE opcode[2] = "l" -> INST_DP_INC
               [] opcode[2] = "I" -> INST_DP_DEC
               [] opcode[2] = "1" -> INST_JMP_FORWARD
               [] OTHER -> INST_NOP)
      [] opcode[1] = "I" ->
            (CASE opcode[2] = "l" -> INST_VAL_INC
               [] opcode[2] = "I" -> INST_VAL_DEC
               [] opcode[2] = "1" -> INST_JMP_BACK
               [] OTHER -> INST_NOP)
      [] opcode[1] = "1" ->
            (CASE opcode[2] = "l" -> INST_VAL_OUTPUT
               [] opcode[2] = "I" -> INST_VAL_ACCEPT
               [] OTHER -> INST_NOP)
      [] OTHER -> INST_NOP

\* interpreter/brainfuck/brainfuck.c: opcode_decode(uint8_t)
brainfuck_opcode_decode(opcode) ==
    CASE opcode[1] = ">" -> INST_DP_INC
      [] opcode[1] = "<" -> INST_DP_DEC
      [] opcode[1] = "+" -> INST_VAL_INC
      [] opcode[1] = "-" -> INST_VAL_DEC
      [] opcode[1] = "." -> INST_VAL_OUTPUT
      [] opcode[1] = "," -> INST_VAL_ACCEPT
      [] opcode[1] = "[" -> INST_JMP_FORWARD
      [] opcode[1] = "]" -> INST_JMP_BACK
      [] OTHER -> INST_NOP

\* sizeof(ichiglyph_opcode_t), resp. sizeof(uint8_t)
sizeof_opcode(e) == IF e = "ichiglyph" THEN 2 ELSE 1

opcode_decode(e, opcode) ==
    IF e = "ichiglyph" THEN ichiglyph_opcode_decode(opcode)
    ELSE brainfuck_opcode_decode(opcode)

\* size_t program_size = stat.st_size / sizeof(opcode)
ProgramSize(e, src) == Len(src) \div sizeof_opcode(e)

program_size == ProgramSize(engine, source)

\* memcpy(&opcode, program + i, sizeof(opcode)), for an index inside the program
Fetch(e, src, i) == SubSeq(src, i * sizeof_opcode(e) + 1, (i + 1) * sizeof_opcode(e))

\* The instruction at index i of the program, 0 <= i < program_size
InstAt(e, src, i) == opcode_decode(e, Fetch(e, src, i))

(***************************************************************************)
(* The bracket scans of the run loop.                                      *)
(***************************************************************************)

\* The process is killed by a signal instead of reading a value
SIGSEGV == "SIGSEGV"

\* What the read of the opcode at index program_size, one unit past the end of
\* the mapped program, can give: any instruction, or a fault
PastEndReads == instruction_t \cup {SIGSEGV}

\* ForwardScan with the nesting forgotten: the scan stops at the first
\* INST_JMP_BACK it meets
RECURSIVE ForwardScan_FirstClose(_, _, _, _, _, _)
ForwardScan_FirstClose(e, src, i, balance, past_end, reads) ==
    IF balance = 0 \/ i = ProgramSize(e, src)
    THEN [ip |-> i, balance |-> balance, killed |-> FALSE, reads |-> reads]
    ELSE LET i2 == i + 1
             outside == i2 >= ProgramSize(e, src)
             instruction2 == IF outside THEN past_end ELSE InstAt(e, src, i2)
         IN  IF instruction2 = SIGSEGV
             THEN [ip |-> i2, balance |-> balance, killed |-> TRUE,
                   reads |-> reads \cup {i2}]
             ELSE ForwardScan_FirstClose(e, src, i2,
                      IF instruction2 = INST_JMP_BACK THEN 0 ELSE balance,
                      past_end, reads \cup {i2})

\* BackwardScan with the counting swapped: an INST_JMP_BACK met on the way
\* closes the scan as an INST_JMP_FORWARD should
RECURSIVE BackwardScan_Swapped(_, _, _, _, _)
BackwardScan_Swapped(e, src, i, balance, reads) ==
    IF balance = 0
    THEN [ip |-> i, balance |-> balance, reads |-> reads]
    ELSE IF i = 0
    THEN [ip |-> ProgramSize(e, src), balance |-> balance, reads |-> reads]
    ELSE LET i2 == i - 1
             instruction2 == InstAt(e, src, i2)
         IN  BackwardScan_Swapped(e, src, i2,
                 CASE instruction2 = INST_JMP_FORWARD -> balance + 1
                   [] instruction2 = INST_JMP_BACK -> balance - 1
                   [] OTHER -> balance,
                 reads \cup {i2})

\* BackwardScan with the assignment ip = program_size forgotten where no
\* matching instruction is found: the loop is left with ip = 0
RECURSIVE BackwardScan_NoStop(_, _, _, _, _)
BackwardScan_NoStop(e, src, i, balance, reads) ==
    IF balance = 0 \/ i = 0
    THEN [ip |-> i, balance |-> balance, reads |-> reads]
    ELSE LET i2 == i - 1
             instruction2 == InstAt(e, src, i2)
         IN  BackwardScan_NoStop(e, src, i2,
                 CASE instruction2 = INST_JMP_FORWARD -> balance - 1
                   [] instruction2 = INST_JMP_BACK -> balance + 1
                   [] OTHER -> balance,
                 reads \cup {i2})

\* case INST_JMP_FORWARD: the while (balance != 0) loop, entered with ip = i.
\* past_end is what the read at index program_size gives, should the loop make
\* it.  reads collects the indices whose opcode the loop fetched.
RECURSIVE ForwardScan(_, _, _, _, _, _)
ForwardScan(e, src, i, balance, past_end, reads) ==
    IF balance = 0 \/ i = ProgramSize(e, src)
    THEN [ip |-> i, balance |-> balance, killed |-> FALSE, reads |-> reads]
    ELSE LET i2 == i + 1
             outside == i2 >= ProgramSize(e, src)
             instruction2 == IF outside THEN past_end ELSE InstAt(e, src, i2)
         IN  IF instruction2 = SIGSEGV
             THEN [ip |-> i2, balance |-> balance, killed |-> TRUE,
                   reads |-> reads \cup {i2}]
             ELSE ForwardScan(e, src, i2,
                      CASE instruction2 = INST_JMP_FORWARD -> balance + 1
                        [] instruction2 = INST_JMP_BACK -> balance - 1
                        [] OTHER -> balance,
                      past_end, reads \cup {i2})

\* case INST_JMP_BACK: the while (balance != 0) loop, entered with ip = i.
\* With no matching instruction the loop sets ip = program_size and breaks.
RECURSIVE BackwardScan(_, _, _, _, _)
BackwardScan(e, src, i, balance, reads) ==
    IF balance = 0
    THEN [ip |-> i, balance |-> balance, reads |-> reads]
    ELSE IF i = 0
    THEN [ip |-> ProgramSize(e, src), balance |-> balance, reads |-> reads]
    ELSE LET i2 == i - 1
             instruction2 == InstAt(e, src, i2)
         IN  BackwardScan(e, src, i2,
                 CASE instruction2 = INST_JMP_FORWARD -> balance - 1
                   [] instruction2 = INST_JMP_BACK -> balance + 1
                   [] OTHER -> balance,
                 reads \cup {i2})

(***************************************************************************)
(* Data memory.  The buffer is a function from cell indices to bytes; of   *)
(* its cells the model keeps those the data pointer can reach, the indices *)
(* 0 .. MaxDp (every allocation is longer than that), and one cell that    *)
(* only a second allocation holds.                                         *)
(***************************************************************************)
NULL == << >>

\* A cell beyond the first allocation made for a cell of 0 .. MaxDp
FarCell == DATA_GRANULARITY + 5

Tracked == (0 .. MaxDp) \cup {FarCell}

Cells(size) == {i \in Tracked : i < size}

\* What the environment decides during one access to the data memory:
\*   ok       realloc() can satisfy the request
\*   garbage  the byte that fills memory realloc() newly hands out
\*   wild     what a write outside the buffer does: it corrupts the heap
\*            silently ("corrupt") or faults (SIGSEGV)
Environments ==
    [ok : BOOLEAN, garbage : {0, 165}, wild : {"corrupt", SIGSEGV}]

\* The environments that differ in effect for an access at p: with p inside
\* the buffer data_bound calls nothing
EnvironmentsAt(d, p) ==
    IF p < d.size THEN {[ok |-> TRUE, garbage |-> 0, wild |-> "corrupt"]}
    ELSE Environments

\* realloc(ptr, size): the old contents up to the smaller of the two sizes,
\* the rest uninitialised; NULL on failure, and for a request of 0 bytes
realloc(ptr, size, env) ==
    IF ~env.ok \/ size = 0 THEN NULL
    ELSE [i \in Cells(size) |-> IF i \in DOMAIN ptr THEN ptr[i] ELSE env.garbage]

\* memset(ptr + from, 0, n)
memset(ptr, from, n) ==
    [i \in DOMAIN ptr |-> IF from <= i /\ i < from + n THEN 0 ELSE ptr[i]]

\* data_init
data_init == [data |-> NULL, size |-> 0, allocated |-> 0]

\* data_bound with the memset() lost: the cells realloc() newly hands out keep
\* what they held
data_bound_NoMemset(d, p, env) ==
    IF p >= d.size
    THEN LET size == (p + 1 + DATA_GRANULARITY) % SIZE_MODULUS
             new == realloc(d.data, size, env)
         IN  IF new = NULL
             THEN [data |-> [d EXCEPT !.data = NULL, !.allocated = 0],
                   ret |-> -1, killed |-> FALSE]
             ELSE [data |-> [data |-> new, size |-> size, allocated |-> size],
                   ret |-> 0, killed |-> FALSE]
    ELSE [data |-> d, ret |-> 0, killed |-> FALSE]

\* data_bound.  killed: memset() ran with the length size - data->size wrapped
\* around (size < data->size), which sweeps the address space.  A realloc()
\* that fails leaves data->data NULL (the old block is lost, not freed) and
\* data->size as it was.
data_bound(d, p, env) ==
    IF p >= d.size
    THEN LET size == (p + 1 + DATA_GRANULARITY) % SIZE_MODULUS
             new == realloc(d.data, size, env)
         IN  IF new = NULL
             THEN [data |-> [d EXCEPT !.data = NULL, !.allocated = 0],
                   ret |-> -1, killed |-> FALSE]
             ELSE IF size < d.size
             THEN [data |-> [d EXCEPT !.data = new, !.allocated = size],
                   ret |-> 0, killed |-> TRUE]
             ELSE [data |-> [data |-> memset(new, d.size, size - d.size),
                             size |-> size, allocated |-> size],
                   ret |-> 0, killed |-> FALSE]
    ELSE [data |-> d, ret |-> 0, killed |-> FALSE]

\* data->data[p], the cell read
Deref(d, p) == IF p \in DOMAIN d.data THEN d.data[p] ELSE 0

\* data->data[p] = v after data_bound returned 0.  A p at or beyond data->size
\* (the size computed by data_bound wrapped around) is a write outside the
\* buffer: the buffer keeps its contents and the heap is hit.
Store(d, p, v, env) ==
    IF p < d.size
    THEN [data |-> (IF p \in DOMAIN d.data
                    THEN [d EXCEPT !.data[p] = v] ELSE d),
          ret |-> 0, killed |-> FALSE, heap |-> "ok"]
    ELSE [data |-> d, ret |-> 0, killed |-> env.wild = SIGSEGV,
          heap |-> "corrupt"]

Failed(b) == [data |-> b.data, ret |-> b.ret, killed |-> b.killed, heap |-> "ok"]

\* data_inc: data->data[dp]++ on a uint8_t
data_inc(d, p, env) ==
    LET b == data_bound(d, p, env)
    IN  IF b.ret # 0 \/ b.killed THEN Failed(b)
        ELSE Store(b.data, p, (Deref(b.data, p) + 1) % UINT8_MODULUS, env)

\* data_dec: data->data[dp]-- on a uint8_t
data_dec(d, p, env) ==
    LET b == data_bound(d, p, env)
    IN  IF b.ret # 0 \/ b.killed THEN Failed(b)
        ELSE Store(b.data, p, (Deref(b.data, p) - 1) % UINT8_MODULUS, env)

\* data_get
data_get(d, p) == IF p >= d.size THEN 0 ELSE Deref(d, p)

\* data_set(data, dp, val): val is converted to uint8_t
data_set(d, p, val, env) ==
    LET b == data_bound(d, p, env)
    IN  IF b.ret # 0 \/ b.killed THEN Failed(b)
        ELSE Store(b.data, p, val % UINT8_MODULUS, env)

(***************************************************************************)
(* The programs and input streams the runs start from.                     *)
(***************************************************************************)

\* Every sequence over S of at most n elements
SeqUpTo(S, n) == UNION {[1 .. k -> S] : k \in 0 .. n}

\* The eight Brainfuck opcodes and a character that is none of them
BrainfuckBytes == {">", "<", "+", "-", ".", ",", "[", "]", "x"}

\* The eight Ichiglyph opcodes and a unit that is none of them
IchiglyphUnits ==
    {<<"l", "l">>, <<"l", "I">>, <<"I", "l">>, <<"I", "I">>, <<"1", "l">>,
     <<"1", "I">>, <<"l", "1">>, <<"I", "1">>, <<"1", "1">>}

\* The bytes of a sequence of two-byte units, one after the other
Flatten(units) ==
    [i \in 1 .. 2 * Len(units) |-> units[(i + 1) \div 2][2 - (i % 2)]]

\* ichiglyph_encode with an opcode for INST_NOP: a character that is no
\* instruction is translated, not dropped
ichiglyph_encode_KeepsNop(instruction) ==
    CASE instruction = INST_DP_INC -> <<"l", "l">>
      [] instruction = INST_DP_DEC -> <<"l", "I">>
      [] instruction = INST_VAL_INC -> <<"I", "l">>
      [] instruction = INST_VAL_DEC -> <<"I", "I">>
      [] instruction = INST_VAL_OUTPUT -> <<"1", "l">>
      [] instruction = INST_VAL_ACCEPT -> <<"1", "I">>
      [] instruction = INST_JMP_FORWARD -> <<"l", "1">>
      [] instruction = INST_JMP_BACK -> <<"I", "1">>
      [] OTHER -> <<"1", "1">>

\* ichiglyph_encode with the opcodes of the two jumps swapped
ichiglyph_encode_Swapped(instruction) ==
    CASE instruction = INST_DP_INC -> <<"l", "l">>
      [] instruction = INST_DP_DEC -> <<"l", "I">>
      [] instruction = INST_VAL_INC -> <<"I", "l">>
      [] instruction = INST_VAL_DEC -> <<"I", "I">>
      [] instruction = INST_VAL_OUTPUT -> <<"1", "l">>
      [] instruction = INST_VAL_ACCEPT -> <<"1", "I">>
      [] instruction = INST_JMP_FORWARD -> <<"I", "1">>
      [] instruction = INST_JMP_BACK -> <<"l", "1">>
      [] OTHER -> << >>

\* transpiler/ig2bf: the Brainfuck opcode written for a decoded instruction
\* (nothing is written for INST_NOP)
brainfuck_encode(instruction) ==
    CASE instruction = INST_DP_INC -> <<">">>
      [] instruction = INST_DP_DEC -> <<"<">>
      [] instruction = INST_VAL_INC -> <<"+">>
      [] instruction = INST_VAL_DEC -> <<"-">>
      [] instruction = INST_VAL_OUTPUT -> <<".">>
      [] instruction = INST_VAL_ACCEPT -> <<",">>
      [] instruction = INST_JMP_FORWARD -> <<"[">>
      [] instruction = INST_JMP_BACK -> <<"]">>
      [] OTHER -> << >>

\* transpiler/bf2ig: the Ichiglyph opcode written for a decoded instruction
\* (nothing is written for INST_NOP)
ichiglyph_encode(instruction) ==
    CASE instruction = INST_DP_INC -> <<"l", "l">>
      [] instruction = INST_DP_DEC -> <<"l", "I">>
      [] instruction = INST_VAL_INC -> <<"I", "l">>
      [] instruction = INST_VAL_DEC -> <<"I", "I">>
      [] instruction = INST_VAL_OUTPUT -> <<"1", "l">>
      [] instruction = INST_VAL_ACCEPT -> <<"1", "I">>
      [] instruction = INST_JMP_FORWARD -> <<"l", "1">>
      [] instruction = INST_JMP_BACK -> <<"I", "1">>
      [] OTHER -> << >>

\* transpiler/bf2ig: the run loop of main, the output for the source src
RECURSIVE bf2ig(_)
bf2ig(src) ==
    IF src = << >> THEN << >>
    ELSE ichiglyph_encode(brainfuck_opcode_decode(<<Head(src)>>)) \o bf2ig(Tail(src))

\* Longer Brainfuck programs: the scenarios of the specification's section 8
\* and loops nested in loops
Scenarios ==
    {<<"+", "+", "+", ".">>,
     <<".", ",", ".">>,
     <<"+", "+", "+", "[", "-", "]">>,
     <<"[", "[", "]", "]">>,
     <<"[", "[", "+", "]", "]", ".">>,
     <<"+", "[", ">", "[", "+", "]", "]">>,
     <<"+", "[", ">", "[", "+", "]", "<", "-", "]">>,
     <<"+", "[", ">", "[", "]", "<", "]">>,
     <<"-", "[", "[", "-", "]", "]">>,
     <<"x", "+", "x", ".">>}

\* Every arrangement of at most ScanLen brackets and other characters
BracketPrograms == SeqUpTo({"[", "]", "x"}, ScanLen)

\* The source files of an interpreter: every program of at most MaxLen units
\* (an Ichiglyph file may end in a dangling byte), the bracket programs and
\* the scenarios
Sources(e) ==
    IF e = "brainfuck"
    THEN SeqUpTo(BrainfuckBytes, MaxLen) \cup BracketPrograms \cup Scenarios
    ELSE {Flatten(u) \o tail :
              u \in SeqUpTo(IchiglyphUnits, MaxLen), tail \in {<< >>, <<"l">>}}
         \cup {bf2ig(s) : s \in BracketPrograms \cup Scenarios}

InputBytes == {0, 255}

InputStreams == SeqUpTo(InputBytes, MaxInput)

\* The counted loops: read a byte, then loop over one instruction
CountedLoops(e) ==
    LET loops == {<<",", "[", body, "]">> : body \in {"-", ">"}}
    IN  IF e = "brainfuck" THEN loops ELSE {bf2ig(s) : s \in loops}

(***************************************************************************)
(* main().                                                                 *)
(***************************************************************************)
\* No earlier run
NoTwin == [pc |-> "none"]

NoDispatch ==
    [n |-> 0, ip |-> -1, instruction |-> "none", val |-> 0, outcome |-> "none"]

Start(e, src, input, n) ==
    /\ engine = e
    /\ source = src
    /\ stdin = input
    /\ limit = n
    /\ pc = "load"
    /\ ip = 0
    /\ dp = 0
    /\ data = data_init
    /\ heap = "ok"
    /\ stdout = << >>
    /\ stderr = << >>
    /\ ret = -1
    /\ consumed = << >>
    /\ hits = [i \in 0 .. ProgramSize(e, src) - 1 |-> 0]
    /\ seen = [i \in 0 .. ProgramSize(e, src) - 1 |-> -1]
    /\ last = NoDispatch
    /\ written = {}
    /\ twin = NoTwin

Init ==
    \E e \in {"ichiglyph", "brainfuck"} :
        \E src \in Sources(e), input \in InputStreams :
            Start(e, src, input, MaxSteps)

\* The scenarios alone
InitScenario ==
    \E e \in {"ichiglyph", "brainfuck"} :
        \E src \in Sources(e), input \in InputStreams :
            /\ src \in (IF e = "brainfuck" THEN Scenarios
                        ELSE {bf2ig(s) : s \in Scenarios})
            /\ Start(e, src, input, MaxSteps)

InitLoop ==
    \E e \in {"ichiglyph", "brainfuck"} :
        \E src \in CountedLoops(e), input \in SeqUpTo(Byte, 1) :
            Start(e, src, input, LoopSteps)

\* mmap() of the source file: a length of 0 is refused (EINVAL), main returns 4
Mmap ==
    /\ pc = "load"
    /\ IF program_size = 0
       THEN /\ pc' = "done"
            /\ ret' = 4
            /\ stderr' = Append(stderr, "Unable to mmap")
       ELSE /\ pc' = "run"
            /\ UNCHANGED <<ret, stderr>>
    /\ UNCHANGED <<engine, source, stdin, limit, ip, dp, data, heap, stdout,
                   consumed, hits, seen, last, written, twin>>

\* while (ip < program_size), within the explored number of dispatches
Running == pc = "run" /\ ip < program_size /\ last.n < limit

\* instruction_t instruction = opcode_decode(opcode)
instruction == InstAt(engine, source, ip)

\* The data pointer values the model follows
Followed(p) == p <= MaxDp \/ p >= SIZE_MODULUS - MaxDp

\* The dispatch at ip is counted and remembered
Dispatched(outcome) ==
    /\ hits' = [hits EXCEPT ![ip] = @ + 1]
    /\ seen' = [seen EXCEPT ![ip] = data_get(data, dp)]
    /\ last' = [n |-> last.n + 1, ip |-> ip, instruction |-> instruction,
                val |-> data_get(data, dp), outcome |-> outcome]

\* The process dies of a signal
Killed(status) ==
    /\ pc' = "killed"
    /\ ret' = status
    /\ Dispatched("killed")
    /\ UNCHANGED <<engine, source, limit, ip, dp, heap, stdout, stderr, written, twin>>

\* case INST_DP_INC: dp++
ExecDpInc ==
    /\ Running
    /\ instruction = INST_DP_INC
    /\ Followed((dp + 1) % SIZE_MODULUS)
    /\ dp' = (dp + 1) % SIZE_MODULUS
    /\ ip' = ip + 1
    /\ Dispatched("next")
    /\ UNCHANGED <<engine, source, stdin, consumed, limit, pc, data, heap,
                   stdout, stderr, ret, written, twin>>

\* case INST_DP_DEC: dp--
ExecDpDec ==
    /\ Running
    /\ instruction = INST_DP_DEC
    /\ Followed((dp - 1) % SIZE_MODULUS)
    /\ dp' = (dp - 1) % SIZE_MODULUS
    /\ ip' = ip + 1
    /\ Dispatched("next")
    /\ UNCHANGED <<engine, source, stdin, consumed, limit, pc, data, heap,
                   stdout, stderr, ret, written, twin>>

\* Accessed with the test of ret lost: after a call that failed for want of
\* memory the run goes on with the next instruction
Accessed_IgnoresFailure(r, abort) ==
    IF heap = "corrupt" /\ dp >= data.size /\ abort
    THEN Killed(134) /\ data' = data
    ELSE IF r.killed
    THEN Killed(139) /\ data' = r.data
    ELSE /\ data' = r.data
         /\ heap' = IF r.heap = "corrupt" THEN "corrupt" ELSE heap
         /\ stderr' = stderr
         /\ ip' = ip + 1
         /\ written' = (IF r.ret # 0 THEN written ELSE written \cup {dp})
         /\ Dispatched(IF r.ret # 0 THEN "oom"
                       ELSE IF r.heap = "corrupt" THEN "outside" ELSE "next")
         /\ UNCHANGED <<engine, source, limit, pc, dp, stdout, ret, twin>>

\* The rest of a dispatch that called data_inc, data_dec or data_set, which
\* returned r.  abort: the allocator, called on a corrupt heap, aborts.
Accessed(r, abort) ==
    IF heap = "corrupt" /\ dp >= data.size /\ abort
    THEN Killed(134) /\ data' = data
    ELSE IF r.killed
    THEN Killed(139) /\ data' = r.data
    ELSE /\ data' = r.data
         /\ heap' = IF r.heap = "corrupt" THEN "corrupt" ELSE heap
         /\ IF r.ret # 0
            THEN /\ stderr' = Append(stderr, "Out of memory")
                 /\ ip' = program_size + 1
                 /\ written' = written
                 /\ Dispatched("oom")
            ELSE /\ stderr' = stderr
                 /\ ip' = ip + 1
                 /\ written' = written \cup {dp}
                 /\ Dispatched(IF r.heap = "corrupt" THEN "outside" ELSE "next")
         /\ UNCHANGED <<engine, source, limit, pc, dp, stdout, ret, twin>>

\* case INST_VAL_INC
ExecValInc ==
    /\ Running
    /\ instruction = INST_VAL_INC
    /\ \E env \in EnvironmentsAt(data, dp), abort \in BOOLEAN :
           Accessed(data_inc(data, dp, env), abort)
    /\ UNCHANGED <<stdin, consumed>>

\* case INST_VAL_DEC
ExecValDec ==
    /\ Running
    /\ instruction = INST_VAL_DEC
    /\ \E env \in EnvironmentsAt(data, dp), abort \in BOOLEAN :
           Accessed(data_dec(data, dp, env), abort)
    /\ UNCHANGED <<stdin, consumed>>

\* ExecValOutput reading the cell the way the writing accessors do, through
\* data_bound: a read beyond the buffer grows it
ExecValOutput_Grows ==
    /\ Running
    /\ instruction = INST_VAL_OUTPUT
    /\ stdout' = Append(stdout, data_get(data, dp))
    /\ ip' = ip + 1
    /\ \E env \in EnvironmentsAt(data, dp) :
           data' = data_bound(data, dp, env).data
    /\ Dispatched("next")
    /\ UNCHANGED <<engine, source, stdin, consumed, limit, pc, dp,
                   heap, stderr, ret, written, twin>>

\* ExecValOutput writing the cell as a string would be written: a cell that
\* holds 0 gives no byte
ExecValOutput_SkipsZero ==
    /\ Running
    /\ instruction = INST_VAL_OUTPUT
    /\ stdout' = (IF data_get(data, dp) = 0 THEN stdout
                  ELSE Append(stdout, data_get(data, dp)))
    /\ ip' = ip + 1
    /\ Dispatched("next")
    /\ UNCHANGED <<engine, source, stdin, consumed, limit, pc, dp, data,
                   heap, stderr, ret, written, twin>>

\* case INST_VAL_OUTPUT: fputc(data_get(&data, dp), stdout); fflush(stdout)
ExecValOutput ==
    /\ Running
    /\ instruction = INST_VAL_OUTPUT
    /\ stdout' = Append(stdout, data_get(data, dp))
    /\ ip' = ip + 1
    /\ Dispatched("next")
    /\ UNCHANGED <<engine, source, stdin, consumed, limit, pc, dp, data,
                   heap, stderr, ret, written, twin>>

\* ExecValAccept with EOF taken for a byte: the int -1 is stored as the
\* uint8_t 255 and the run goes on
ExecValAccept_EofAsByte ==
    /\ Running
    /\ instruction = INST_VAL_ACCEPT
    /\ stdin' = (IF stdin = << >> THEN stdin ELSE Tail(stdin))
    /\ consumed' = (IF stdin = << >> THEN consumed
                    ELSE Append(consumed, Head(stdin)))
    /\ \E env \in EnvironmentsAt(data, dp), abort \in BOOLEAN :
           Accessed(data_set(data, dp,
                             IF stdin = << >> THEN -1 ELSE Head(stdin), env),
                    abort)

\* case INST_VAL_ACCEPT: fgetc(stdin) gives EOF on an exhausted stream, and
\* the next byte as an int in 0 .. 255 otherwise
ExecValAccept ==
    /\ Running
    /\ instruction = INST_VAL_ACCEPT
    /\ IF stdin = << >>
       THEN /\ ip' = program_size + 1
            /\ Dispatched("eof")
            /\ UNCHANGED <<engine, source, stdin, consumed, limit, pc, dp,
                           data, heap, stdout, stderr, ret, written, twin>>
       ELSE /\ stdin' = Tail(stdin)
            /\ consumed' = Append(consumed, Head(stdin))
            /\ \E env \in EnvironmentsAt(data, dp), abort \in BOOLEAN :
                   Accessed(data_set(data, dp, Head(stdin), env), abort)

\* ExecJmpForward with the test of the cell lost: the scan for the closing
\* bracket runs whatever the cell holds
ExecJmpForward_AlwaysScans ==
    /\ Running
    /\ instruction = INST_JMP_FORWARD
    /\ \E past_end \in PastEndReads :
           LET scan == ForwardScan(engine, source, ip, 1, past_end, {})
           IN  IF scan.killed
               THEN Killed(139) /\ data' = data
               ELSE /\ ip' = scan.ip + 1
                    /\ Dispatched(IF scan.ip < program_size
                                  THEN "jump" ELSE "unmatched")
                    /\ UNCHANGED <<engine, source, limit, pc, dp, data,
                                   heap, stdout, stderr, ret, written, twin>>
    /\ UNCHANGED <<stdin, consumed>>

\* case INST_JMP_FORWARD
ExecJmpForward ==
    /\ Running
    /\ instruction = INST_JMP_FORWARD
    /\ IF data_get(data, dp) = 0
       THEN \E past_end \in PastEndReads :
                LET scan == ForwardScan(engine, source, ip, 1, past_end, {})
                IN  IF scan.killed
                    THEN Killed(139) /\ data' = data
                    ELSE /\ ip' = scan.ip + 1
                         /\ Dispatched(IF scan.ip < program_size
                                       THEN "jump" ELSE "unmatched")
                         /\ UNCHANGED <<engine, source, limit, pc, dp, data,
                                        heap, stdout, stderr, ret, written, twin>>
       ELSE /\ ip' = ip + 1
            /\ Dispatched("next")
            /\ UNCHANGED <<engine, source, limit, pc, dp, data, heap, stdout,
                           stderr, ret, written, twin>>
    /\ UNCHANGED <<stdin, consumed>>

\* ExecJmpBack with the test of the cell lost: the instruction never jumps
ExecJmpBack_NeverLoops ==
    /\ Running
    /\ instruction = INST_JMP_BACK
    /\ ip' = ip + 1
    /\ Dispatched("next")
    /\ UNCHANGED <<engine, source, stdin, consumed, limit, pc, dp, data, heap,
                   stdout, stderr, ret, written, twin>>

\* case INST_JMP_BACK
ExecJmpBack ==
    /\ Running
    /\ instruction = INST_JMP_BACK
    /\ IF data_get(data, dp) # 0
       THEN LET scan == BackwardScan(engine, source, ip, 1, {})
            IN  /\ ip' = scan.ip + 1
                /\ Dispatched(IF scan.ip < program_size
                              THEN "jump" ELSE "unmatched")
       ELSE /\ ip' = ip + 1
            /\ Dispatched("next")
    /\ UNCHANGED <<engine, source, stdin, consumed, limit, pc, dp, data, heap,
                   stdout, stderr, ret, written, twin>>

\* ExecNop leaving the switch with continue: the ip++ that closes the
\* iteration of the run loop is skipped
ExecNop_Stalls ==
    /\ Running
    /\ instruction = INST_NOP
    /\ ip' = ip
    /\ Dispatched("next")
    /\ UNCHANGED <<engine, source, stdin, consumed, limit, pc, dp, data, heap,
                   stdout, stderr, ret, written, twin>>

\* case INST_NOP
ExecNop ==
    /\ Running
    /\ instruction = INST_NOP
    /\ ip' = ip + 1
    /\ Dispatched("next")
    /\ UNCHANGED <<engine, source, stdin, consumed, limit, pc, dp, data, heap,
                   stdout, stderr, ret, written, twin>>

\* data_done
data_done == [data |-> NULL, size |-> 0, allocated |-> 0]

\* After the run loop: data_done(&data); munmap; close; return 0.  free() on a
\* corrupt heap may abort the process instead.
Exit ==
    /\ pc = "run"
    /\ ip >= program_size
    /\ \E abort \in BOOLEAN :
           IF heap = "corrupt" /\ abort
           THEN pc' = "killed" /\ ret' = 134 /\ data' = data
           ELSE pc' = "done" /\ ret' = 0 /\ data' = data_done
    /\ UNCHANGED <<engine, source, stdin, consumed, limit, ip, dp, heap,
                   stdout, stderr, hits, seen, last, written, twin>>

Next ==
    \/ Mmap
    \/ ExecDpInc
    \/ ExecDpDec
    \/ ExecValInc
    \/ ExecValDec
    \/ ExecValOutput
    \/ ExecValAccept
    \/ ExecJmpForward
    \/ ExecJmpBack
    \/ ExecNop
    \/ Exit

\* The runs of every enumerated program and scenario
Spec == Init /\ [][Next]_vars

\* The process is scheduled until main returns: a step that can be taken is
\* taken
SpecFair == Init /\ [][Next]_vars /\ WF_vars(Next)

\* The runs of the scenarios, and of the counted loops on every input byte
SpecLoop == (InitScenario \/ InitLoop) /\ [][Next]_vars

(***************************************************************************)
(* A Brainfuck program run by the Brainfuck interpreter, then translated   *)
(* by bf2ig and run by the Ichiglyph interpreter on the same input.        *)
(***************************************************************************)

\* The run loop is over, or main could not map the source, or the process
\* was killed in a dispatch
Ended ==
    \/ pc = "run" /\ ip >= program_size
    \/ pc = "done" /\ ret = 4
    \/ pc = "killed" /\ last.outcome = "killed"

\* Why the run ended
Reason ==
    IF pc = "done" /\ ret = 4 THEN "mmap"
    ELSE IF last.outcome \in {"unmatched", "eof", "oom", "killed"}
    THEN last.outcome
    ELSE "end"

\* What a run leaves when it has ended: the bytes written and read, the data
\* memory and the data pointer, and why it ended
Observed ==
    [stdout |-> stdout, consumed |-> consumed, data |-> data, dp |-> dp,
     reason |-> Reason]

InitPair ==
    \E src \in Sources("brainfuck"), input \in InputStreams :
        Start("brainfuck", src, input, MaxSteps)

\* bf2ig translates the source of the run that has ended, and the Ichiglyph
\* interpreter is started on the translation with the same standard input
Translate ==
    /\ twin = NoTwin
    /\ engine = "brainfuck"
    /\ Ended
    /\ twin' = [pc |-> pc, source |-> source, observed |-> Observed]
    /\ engine' = "ichiglyph"
    /\ source' = bf2ig(source)
    /\ stdin' = consumed \o stdin
    /\ pc' = "load"
    /\ ip' = 0
    /\ dp' = 0
    /\ data' = data_init
    /\ heap' = "ok"
    /\ stdout' = << >>
    /\ stderr' = << >>
    /\ ret' = -1
    /\ consumed' = << >>
    /\ hits' = [i \in 0 .. ProgramSize("ichiglyph", bf2ig(source)) - 1 |-> 0]
    /\ seen' = [i \in 0 .. ProgramSize("ichiglyph", bf2ig(source)) - 1 |-> -1]
    /\ last' = NoDispatch
    /\ written' = {}
    /\ UNCHANGED limit

NextPair ==
    \/ Next
    \/ Translate

\* The runs of every enumerated Brainfuck program, each followed by the run
\* of its translation
SpecPair == InitPair /\ [][NextPair]_vars

(***************************************************************************)
(* The data memory on its own: every sequence of the calls main makes      *)
(* (data_inc, data_dec, data_set, data_get), at the data pointers a run of *)
(* dp++ or dp-- can leave, on a memory that data_init has initialised.     *)
(***************************************************************************)

\* The data pointers of the calls: the first cells, a cell beyond the first
\* allocation, and what dp-- leaves at dp = 0
DataPointers == {0, 1, FarCell, SIZE_MAX}

InitData ==
    /\ engine = "ichiglyph"
    /\ source = << >>
    /\ stdin = << >>
    /\ limit = DataSteps
    /\ pc = "run"
    /\ ip = 0
    /\ dp = 0
    /\ data = data_init
    /\ heap = "ok"
    /\ stdout = << >>
    /\ stderr = << >>
    /\ ret = -1
    /\ consumed = << >>
    /\ hits = << >>
    /\ seen = << >>
    /\ last = NoDispatch
    /\ written = {}
    /\ twin = NoTwin

\* main goes on calling the data memory until a call fails
DataLive == pc = "run" /\ last.n < limit /\ last.outcome # "oom"

\* dp++ and dp--, as often as it takes to bring the data pointer to p
MoveDataPointer ==
    /\ DataLive
    /\ \E p \in DataPointers \ {dp} : dp' = p
    /\ UNCHANGED <<engine, source, stdin, limit, pc, ip, data, heap, stdout,
                   stderr, ret, consumed, hits, seen, last, written, twin>>

\* The call has been made and is remembered
DataCalled(call, outcome) ==
    last' = [n |-> last.n + 1, ip |-> ip, instruction |-> call,
             val |-> data_get(data, dp), outcome |-> outcome]

\* A call of data_inc, data_dec or data_set that returned r.  abort: the
\* allocator, called on a corrupt heap, aborts.
DataWrite(call, r, abort) ==
    /\ IF heap = "corrupt" /\ dp >= data.size /\ abort
       THEN /\ pc' = "killed" /\ ret' = 134
            /\ DataCalled(call, "killed")
            /\ UNCHANGED <<data, heap, written>>
       ELSE IF r.killed
       THEN /\ pc' = "killed" /\ ret' = 139
            /\ data' = r.data
            /\ DataCalled(call, "killed")
            /\ UNCHANGED <<heap, written>>
       ELSE /\ data' = r.data
            /\ heap' = (IF r.heap = "corrupt" THEN "corrupt" ELSE heap)
            /\ written' = (IF r.ret # 0 THEN written ELSE written \cup {dp})
            /\ DataCalled(call, IF r.ret # 0 THEN "oom"
                                ELSE IF r.heap = "corrupt" THEN "outside"
                                ELSE "next")
            /\ UNCHANGED <<pc, ret>>
    /\ UNCHANGED <<engine, source, stdin, limit, ip, dp, stdout, stderr,
                   consumed, hits, seen, twin>>

CallDataInc ==
    /\ DataLive
    /\ \E env \in EnvironmentsAt(data, dp), abort \in BOOLEAN :
           DataWrite("data_inc", data_inc(data, dp, env), abort)

CallDataDec ==
    /\ DataLive
    /\ \E env \in EnvironmentsAt(data, dp), abort \in BOOLEAN :
           DataWrite("data_dec", data_dec(data, dp, env), abort)

CallDataSet ==
    /\ DataLive
    /\ \E val \in InputBytes, env \in EnvironmentsAt(data, dp),
          abort \in BOOLEAN :
           DataWrite("data_set", data_set(data, dp, val, env), abort)

\* val = data_get(&data, dp); fputc(val, stdout)
CallDataGet ==
    /\ DataLive
    /\ stdout' = Append(stdout, data_get(data, dp))
    /\ DataCalled("data_get", "next")
    /\ UNCHANGED <<engine, source, stdin, limit, pc, ip, dp, data, heap, stderr,
                   ret, consumed, hits, seen, written, twin>>

\* data_done(&data), and main returns; free() on a corrupt heap may abort
CallDataDone ==
    /\ pc = "run"
    /\ \E abort \in BOOLEAN :
           IF heap = "corrupt" /\ abort
           THEN pc' = "killed" /\ ret' = 134 /\ data' = data
           ELSE pc' = "done" /\ ret' = 0 /\ data' = data_done
    /\ UNCHANGED <<engine, source, stdin, limit, ip, dp, heap, stdout, stderr,
                   consumed, hits, seen, last, written, twin>>

NextData ==
    \/ MoveDataPointer
    \/ CallDataInc
    \/ CallDataDec
    \/ CallDataSet
    \/ CallDataGet
    \/ CallDataDone

\* Every sequence of at most DataSteps calls to the data memory
SpecData == InitData /\ [][NextData]_vars

(***************************************************************************)
(* The transpilers ig2bf and bf2ig: main() maps the source file, decodes   *)
(* one opcode per iteration and writes the opcode of the other language.   *)
(* Standard output is the sequence of characters written.                  *)
(***************************************************************************)

\* The language a tool reads
SourceSyntax(tool) ==
    IF tool \in {"ichiglyph", "ig2bf"} THEN "ichiglyph" ELSE "brainfuck"

InitTranspile ==
    \E tool \in {"ig2bf", "bf2ig"} :
        \E src \in Sources(SourceSyntax(tool)) :
            /\ engine = tool
            /\ source = src
            /\ stdin = << >>
            /\ limit = MaxSteps
            /\ pc = "load"
            /\ ip = 0
            /\ dp = 0
            /\ data = data_init
            /\ heap = "ok"
            /\ stdout = << >>
            /\ stderr = << >>
            /\ ret = -1
            /\ consumed = << >>
            /\ hits = [i \in 0 .. ProgramSize(SourceSyntax(tool), src) - 1 |-> 0]
            /\ seen = [i \in 0 .. ProgramSize(SourceSyntax(tool), src) - 1 |-> -1]
            /\ last = NoDispatch
            /\ written = {}
            /\ twin = NoTwin

\* size_t program_size of the transpiler that runs
transpiler_program_size == ProgramSize(SourceSyntax(engine), source)

\* mmap() of the source file: a length of 0 is refused, main returns 4
TranspilerMmap ==
    /\ pc = "load"
    /\ IF transpiler_program_size = 0
       THEN /\ pc' = "done"
            /\ ret' = 4
            /\ stderr' = Append(stderr, "Unable to mmap")
       ELSE /\ pc' = "run"
            /\ UNCHANGED <<ret, stderr>>
    /\ UNCHANGED <<engine, source, stdin, limit, ip, dp, data, heap, stdout,
                   consumed, hits, seen, last, written, twin>>

\* One iteration of the loop of a transpiler, which decoded the instruction
\* inst and writes the opcode encoded
Transpiled(inst, encoded) ==
    /\ stdout' = stdout \o encoded
    /\ ip' = ip + 1
    /\ hits' = [hits EXCEPT ![ip] = @ + 1]
    /\ last' = [n |-> last.n + 1, ip |-> ip, instruction |-> inst,
                val |-> 0, outcome |-> "next"]
    /\ UNCHANGED <<engine, source, stdin, limit, pc, dp, data, heap, stderr,
                   ret, consumed, seen, written, twin>>

\* ig2bf: Ichiglyph instruction fetch and decode, Brainfuck instruction encode
Ig2bfStep ==
    /\ engine = "ig2bf"
    /\ pc = "run"
    /\ ip < transpiler_program_size
    /\ LET inst == ichiglyph_opcode_decode(Fetch("ichiglyph", source, ip))
       IN  Transpiled(inst, brainfuck_encode(inst))

\* bf2ig: Brainfuck instruction fetch and decode, Ichiglyph instruction encode
Bf2igStep ==
    /\ engine = "bf2ig"
    /\ pc = "run"
    /\ ip < transpiler_program_size
    /\ LET inst == brainfuck_opcode_decode(Fetch("brainfuck", source, ip))
       IN  Transpiled(inst, ichiglyph_encode(inst))

\* After the loop: munmap; close; return 0
TranspilerExit ==
    /\ pc = "run"
    /\ ip >= transpiler_program_size
    /\ pc' = "done"
    /\ ret' = 0
    /\ UNCHANGED <<engine, source, stdin, limit, ip, dp, data, heap, stdout,
                   stderr, consumed, hits, seen, last, written, twin>>

NextTranspile ==
    \/ TranspilerMmap
    \/ Ig2bfStep
    \/ Bf2igStep
    \/ TranspilerExit

\* The runs of both transpilers on every enumerated program and scenario
SpecTranspile == InitTranspile /\ [][NextTranspile]_vars

\* The language a transpiler writes
TargetSyntax(tool) == IF tool = "ig2bf" THEN "brainfuck" ELSE "ichiglyph"

\* The source files of the transpiler runs before this one, oldest first
Texts == IF twin = NoTwin THEN << >> ELSE twin.texts

\* The other transpiler is run on what the transpiler that returned wrote to
\* standard output
Retranslate ==
    /\ engine \in {"ig2bf", "bf2ig"}
    /\ pc = "done"
    /\ Len(Texts) + 1 < MaxRuns
    /\ twin' = [pc |-> "chain", texts |-> Append(Texts, source)]
    /\ engine' = (IF engine = "ig2bf" THEN "bf2ig" ELSE "ig2bf")
    /\ source' = stdout
    /\ pc' = "load"
    /\ ip' = 0
    /\ stdout' = << >>
    /\ stderr' = << >>
    /\ ret' = -1
    /\ hits' = [i \in 0 .. ProgramSize(TargetSyntax(engine), stdout) - 1 |-> 0]
    /\ seen' = [i \in 0 .. ProgramSize(TargetSyntax(engine), stdout) - 1 |-> -1]
    /\ last' = NoDispatch
    /\ UNCHANGED <<stdin, limit, dp, data, heap, consumed, written>>

NextRoundTrip == NextTranspile \/ Retranslate

\* Chains of up to MaxRuns runs, the two transpilers in turn
SpecRoundTrip == InitTranspile /\ [][NextRoundTrip]_vars

(***************************************************************************)
(* What the claims are stated with.                                        *)
(***************************************************************************)

\* The reference bracket matcher: one pass with a stack of the open brackets;
\* a close bracket met with the stack empty has no partner
RECURSIVE StackMatch(_, _, _, _, _)
StackMatch(e, src, k, stack, pairs) ==
    IF k >= ProgramSize(e, src) THEN pairs
    ELSE IF InstAt(e, src, k) = INST_JMP_FORWARD
    THEN StackMatch(e, src, k + 1, <<k>> \o stack, pairs)
    ELSE IF InstAt(e, src, k) = INST_JMP_BACK /\ stack # << >>
    THEN StackMatch(e, src, k + 1, Tail(stack), pairs \cup {<<Head(stack), k>>})
    ELSE StackMatch(e, src, k + 1, stack, pairs)

\* The matched loops <<i, j>> of the running program
Pairs == StackMatch(engine, source, 0, << >>, {})

\* The indices of the running program that hold the instruction inst
Indices(inst) ==
    {i \in 0 .. program_size - 1 : InstAt(engine, source, i) = inst}

\* The step taken is a dispatch of the instruction at index i
Dispatch(i) == Running /\ ip = i /\ last'.n = last.n + 1

\* The dispatch counted the instruction at index i, and no other
OnlyHit(i) == hits' = [hits EXCEPT ![i] = @ + 1]

\* C1: in both interpreters, dispatching a JumpIfZeroForward at index i whose
\* matching JumpIfNonZeroBackward is at index j, with the cell at dp equal to
\* 0, leaves the run going at ip = j + 1, dispatches no instruction of
\* (i, j], and changes neither the tape nor dp nor the output.
C1_ForwardJumpPastMatch ==
    [][\A m \in Pairs :
           (Dispatch(m[1]) /\ data_get(data, dp) = 0)
               => /\ pc' = "run"
                  /\ ip' = m[2] + 1
                  /\ OnlyHit(m[1])
                  /\ UNCHANGED <<data, dp, stdout>>]_vars

\* A forward jump over a loop that holds another loop has been made
C1_Witness ==
    \E m \in Pairs, inner \in Pairs :
        /\ m[1] < inner[1] /\ inner[2] < m[2]
        /\ last.ip = m[1] /\ last.val = 0 /\ last.outcome = "jump"
        /\ ip = m[2] + 1
        /\ hits[inner[1]] = 0

\* C3: in both interpreters, dispatching a JumpIfNonZeroBackward at index j
\* whose matching JumpIfZeroForward is at index i, with the cell at dp not 0,
\* leaves the run going at ip = i + 1 and changes neither the tape nor dp nor
\* the output; and the backward scan started at j ends at i for every matched
\* loop of the program, i = 0 included.
C3_BackwardJumpToMatch ==
    [][/\ \A m \in Pairs :
              BackwardScan(engine, source, m[2], 1, {}).ip = m[1]
       /\ \A m \in Pairs :
              (Dispatch(m[2]) /\ data_get(data, dp) # 0)
                  => /\ pc' = "run"
                     /\ ip' = m[1] + 1
                     /\ OnlyHit(m[2])
                     /\ UNCHANGED <<data, dp, stdout>>]_vars

\* A backward jump over a loop that holds another loop has been made
C3_Witness ==
    \E m \in Pairs, inner \in Pairs :
        /\ m[1] < inner[1] /\ inner[2] < m[2]
        /\ last.ip = m[2] /\ last.val # 0 /\ last.outcome = "jump"
        /\ ip = m[1] + 1

\* The matched loops whose body is a single DecrementCell
DecrementLoops ==
    {m \in Pairs : m[2] = m[1] + 2
                   /\ InstAt(engine, source, m[1] + 1) = INST_VAL_DEC}

\* C2: a matched loop whose body is a single DecrementCell, entered with the
\* test cell holding n >= 1, is left by its close bracket after exactly n
\* dispatches of the body, with the test cell 0 and ip right after the close;
\* and whenever a dispatch inside a matched loop <<i, j>> leaves the run at
\* j + 1, the cell at dp is 0.
C2_LoopRunsUntilZero ==
    [][/\ \A m \in DecrementLoops :
              (/\ Dispatch(m[2]) /\ last'.outcome = "next"
               /\ hits'[m[1]] = 1 /\ seen'[m[1]] >= 1)
                  => /\ hits'[m[1] + 1] = seen'[m[1]]
                     /\ hits'[m[2]] = seen'[m[1]]
                     /\ data_get(data', dp') = 0
                     /\ pc' = "run"
                     /\ ip' = m[2] + 1
       /\ \A m \in Pairs :
              (/\ Running /\ m[1] <= ip /\ ip <= m[2]
               /\ last'.n = last.n + 1 /\ pc' = "run" /\ ip' = m[2] + 1)
                  => data_get(data', dp') = 0]_vars

\* The loop over a DecrementCell was entered with 255 and has been left
C2_Witness ==
    \E m \in DecrementLoops :
        /\ last.ip = m[2] /\ last.outcome = "next"
        /\ seen[m[1]] = 255 /\ hits[m[1]] = 1
        /\ hits[m[1] + 1] = 255
        /\ ip = m[2] + 1

\* The nested scenarios: the outer test cell is 1, the inner test cell is 0
NestedScenarios ==
    LET nested == {<<"+", "[", ">", "[", "+", "]", "]">>,
                   <<"+", "[", ">", "[", "+", "]", "<", "-", "]">>}
    IN  IF engine = "brainfuck" THEN nested ELSE {bf2ig(s) : s \in nested}

\* C4: for every matched loop <<i, j>> of every program, the forward scan
\* from i stops at j and the backward scan from j stops at i, the partners the
\* stack matcher gives; and a run of a nested scenario dispatches no
\* instruction twice and no instruction of the inner body, and when it ends
\* without a fault it has dispatched the outer test once, with a non-zero
\* cell, and the inner test with a zero cell.
C4_NestedLoopsBalance ==
    /\ \A m \in Pairs :
           /\ \A past_end \in PastEndReads :
                  ForwardScan(engine, source, m[1], 1, past_end, {}).ip = m[2]
           /\ BackwardScan(engine, source, m[2], 1, {}).ip = m[1]
    /\ source \in NestedScenarios =>
           \A outer \in Pairs, inner \in Pairs :
               (outer[1] < inner[1] /\ inner[2] < outer[2]) =>
                   /\ \A i \in DOMAIN hits : hits[i] <= 1
                   /\ \A b \in inner[1] + 1 .. inner[2] - 1 : hits[b] = 0
                   /\ (pc = "done" /\ stderr = << >>) =>
                          /\ hits[outer[1]] = 1 /\ seen[outer[1]] # 0
                          /\ hits[inner[1]] = 1 /\ seen[inner[1]] = 0

\* A nested scenario has run to its end
C4_Witness ==
    /\ source \in NestedScenarios
    /\ pc = "done" /\ stderr = << >>
    /\ \E outer \in Pairs, inner \in Pairs :
           /\ outer[1] < inner[1] /\ inner[2] < outer[2]
           /\ hits[outer[1]] = 1 /\ hits[inner[1]] = 1
           /\ hits[outer[2]] = 1

\* The JumpIfZeroForward instructions with no matching JumpIfNonZeroBackward
UnmatchedForward == Indices(INST_JMP_FORWARD) \ {m[1] : m \in Pairs}

\* The JumpIfNonZeroBackward instructions with no matching JumpIfZeroForward
UnmatchedBackward == Indices(INST_JMP_BACK) \ {m[2] : m \in Pairs}

\* C5: dispatching a JumpIfZeroForward that has no matching
\* JumpIfNonZeroBackward, with the cell at dp equal to 0, ends the run without
\* a crash: the process is not killed, the run loop is over (ip at or past
\* the end of the program), nothing else is dispatched, and tape and output
\* are unchanged.
C5_UnmatchedForwardEndsRun ==
    [][\A i \in UnmatchedForward :
           (Dispatch(i) /\ data_get(data, dp) = 0)
               => /\ pc' = "run"
                  /\ ip' >= program_size
                  /\ OnlyHit(i)
                  /\ UNCHANGED <<data, dp, stdout>>]_vars

\* C6: the backward scan from a JumpIfNonZeroBackward that has no matching
\* JumpIfZeroForward fetches only indices in 0 .. j - 1 and ends with
\* ip = program_size; dispatching it with the cell at dp not 0 ends the run
\* at once (the run loop is over, nothing else is dispatched), with tape, dp
\* and the streams unchanged.
C6_UnmatchedBackwardEndsRun ==
    [][\A j \in UnmatchedBackward :
           LET scan == BackwardScan(engine, source, j, 1, {})
           IN  /\ scan.reads \subseteq 0 .. j - 1
               /\ scan.ip = program_size
               /\ (Dispatch(j) /\ data_get(data, dp) # 0)
                      => /\ pc' = "run"
                         /\ ip' >= program_size
                         /\ OnlyHit(j)
                         /\ UNCHANGED <<data, dp, stdout, stderr>>]_vars

\* A run has ended on a JumpIfNonZeroBackward without a partner
C6_Witness ==
    /\ last.instruction = INST_JMP_BACK
    /\ last.outcome = "unmatched"
    /\ last.val # 0
    /\ last.ip > 0
    /\ pc = "done"

\* C7: when main has returned after a bracket could not be matched, what the
\* caller observes (the exit status and the messages on standard error)
\* differs from what a run that reached the end of the program leaves,
\* exit status 0 and no message.
C7_UnmatchedIsObservable ==
    (pc = "done" /\ last.outcome = "unmatched") => <<ret, stderr>> # <<0, << >>>>

\* The scenario Output Input Output
OutputInputOutput ==
    IF engine = "brainfuck" THEN {<<".", ",", ".">>}
    ELSE {bf2ig(<<".", ",", ".">>)}

\* C8: dispatching InputCell with standard input exhausted ends the run as a
\* normal condition: the process lives, the run loop is over, nothing is
\* written to standard error, the tape, dp and the output are unchanged; and
\* the run of Output Input Output on the empty input writes one byte in all.
C8_EndOfInputEndsRun ==
    [][/\ (Running /\ instruction = INST_VAL_ACCEPT /\ stdin = << >>
           /\ last'.n = last.n + 1)
              => /\ pc' = "run"
                 /\ ip' >= program_size
                 /\ OnlyHit(ip)
                 /\ UNCHANGED <<data, dp, stdout, stderr, stdin, consumed>>
       /\ (source \in OutputInputOutput /\ stdin = << >> /\ consumed = << >>)
              => /\ Len(stdout') <= 1
                 /\ pc' = "done" => stdout' = <<0>>]_vars

\* Output Input Output has run on the empty input and main has returned
C8_Witness ==
    /\ source \in OutputInputOutput
    /\ last.instruction = INST_VAL_ACCEPT /\ last.outcome = "eof"
    /\ pc = "done" /\ ret = 0
    /\ stdout = <<0>>
    /\ hits[2] = 0

\* The sum of hits over the indices in S
RECURSIVE SumHits(_)
SumHits(S) ==
    IF S = {} THEN 0
    ELSE LET i == CHOOSE x \in S : TRUE IN hits[i] + SumHits(S \ {i})

\* C9: dp never wraps around: in every state it is the number of
\* MovePointerForward dispatched minus the number of MovePointerBackward
\* dispatched, and not negative (a MovePointerBackward at dp = 0 ends the run
\* with a fault instead).
C9_DataPointerNeverWraps ==
    /\ dp = SumHits(Indices(INST_DP_INC)) - SumHits(Indices(INST_DP_DEC))
    /\ dp >= 0

\* C10: a successful IncrementCell leaves the cell at dp at (old + 1) mod 256,
\* a successful DecrementCell at (old - 1) mod 256, and every cell of the
\* buffer is in 0 .. 255.
C10_CellArithmeticWraps ==
    [][/\ (Running /\ instruction = INST_VAL_INC /\ last'.n = last.n + 1
           /\ pc' = "run" /\ ip' = ip + 1)
              => data_get(data', dp') = (data_get(data, dp) + 1) % 256
       /\ (Running /\ instruction = INST_VAL_DEC /\ last'.n = last.n + 1
           /\ pc' = "run" /\ ip' = ip + 1)
              => data_get(data', dp') = (data_get(data, dp) - 1) % 256
       /\ \A i \in DOMAIN data'.data : data'.data[i] \in Byte]_vars

\* The tape can be read: the process lives and no growth has failed
TapeLive == pc = "run" /\ last.outcome # "oom"

\* Every cell the model keeps and every data pointer of the calls
CellIndices == Tracked \cup DataPointers

\* C11: while the tape can be read, every cell that no data_inc, data_dec or
\* data_set that returned 0 was aimed at reads as 0, be it beyond the buffer
\* or inside a region growth added; a call that grows the buffer leaves every
\* other cell with its value; and a call at FarCell (GRANULARITY + 5) on the
\* empty tape either fails for want of memory or returns 0 with the buffer
\* reaching beyond FarCell and every other cell of 0 .. FarCell reading 0.
C11_UntouchedCellsReadZero ==
    [][/\ TapeLive =>
              \A i \in CellIndices \ written : data_get(data, i) = 0
       /\ TapeLive' =>
              \A i \in CellIndices \ written' : data_get(data', i) = 0
       /\ (TapeLive' /\ data'.size > data.size) =>
              \A i \in CellIndices \ {dp} :
                  data_get(data', i) = data_get(data, i)
       /\ (data = data_init /\ dp = FarCell /\ last'.n = last.n + 1
           /\ last'.instruction # "data_get") =>
              /\ last'.outcome \in {"next", "oom"}
              /\ last'.outcome = "next" =>
                     /\ data'.size > FarCell
                     /\ \A i \in CellIndices \ {FarCell} :
                            i < FarCell => data_get(data', i) = 0]_vars

\* The tape has grown for a call at FarCell after cell 0 was written: cell 0
\* kept its value and the cell between the two reads 0
C11_Witness ==
    /\ TapeLive
    /\ written = {0, FarCell}
    /\ data.size = FarCell + 1 + DATA_GRANULARITY
    /\ data_get(data, 0) = 255
    /\ data_get(data, FarCell) = 1
    /\ data_get(data, 1) = 0

\* The scenario Inc Inc Inc Output
IncIncIncOutput ==
    IF engine = "brainfuck" THEN {<<"+", "+", "+", ".">>}
    ELSE {bf2ig(<<"+", "+", "+", ".">>)}

\* C12: a dispatch of OutputCell appends to standard output exactly one byte,
\* the value of the cell at dp (0 when no cell operation has written at dp),
\* after the bytes written before, and changes neither the tape nor dp; no
\* other step changes standard output; and the run of Inc Inc Inc Output
\* that ends without a fault has written the single byte 3.
C12_OutputAppendsCell ==
    [][/\ (Running /\ instruction = INST_VAL_OUTPUT /\ last'.n = last.n + 1)
              => /\ stdout' = Append(stdout, data_get(data, dp))
                 /\ dp \notin written => stdout'[Len(stdout')] = 0
                 /\ UNCHANGED <<data, dp>>
       /\ stdout' # stdout => (Running /\ instruction = INST_VAL_OUTPUT)
       /\ source \in IncIncIncOutput
              => /\ stdout' \in {<< >>, <<3>>}
                 /\ (pc' = "done" /\ stderr' = << >>) => stdout' = <<3>>]_vars

\* Inc Inc Inc Output has run to its end
C12_Witness ==
    /\ source \in IncIncIncOutput
    /\ pc = "done" /\ ret = 0 /\ stderr = << >>
    /\ last.instruction = INST_VAL_OUTPUT /\ last.val = 3
    /\ stdout = <<3>>

\* The eight instructions in the order of the README's table, with their
\* Brainfuck and Ichiglyph opcodes
EncodingTable ==
    <<[inst |-> INST_DP_INC, bf |-> <<">">>, ig |-> <<"l", "l">>],
      [inst |-> INST_DP_DEC, bf |-> <<"<">>, ig |-> <<"l", "I">>],
      [inst |-> INST_VAL_INC, bf |-> <<"+">>, ig |-> <<"I", "l">>],
      [inst |-> INST_VAL_DEC, bf |-> <<"-">>, ig |-> <<"I", "I">>],
      [inst |-> INST_VAL_OUTPUT, bf |-> <<".">>, ig |-> <<"1", "l">>],
      [inst |-> INST_VAL_ACCEPT, bf |-> <<",">>, ig |-> <<"1", "I">>],
      [inst |-> INST_JMP_FORWARD, bf |-> <<"[">>, ig |-> <<"l", "1">>],
      [inst |-> INST_JMP_BACK, bf |-> <<"]">>, ig |-> <<"I", "1">>]>>

\* C13: the decoders map > < + - . , [ ] and ll lI Il II 1l 1I l1 I1 to the
\* same eight distinct instructions in that order, the encode tables of the
\* transpilers map each instruction back to those opcodes, and every
\* iteration of a transpiler that decoded an instruction writes one opcode
\* of the other language, which decodes to that instruction.
C13_DecodeInvertsEncode ==
    [][/\ \A k \in DOMAIN EncodingTable :
              LET row == EncodingTable[k]
              IN  /\ brainfuck_opcode_decode(row.bf) = row.inst
                  /\ ichiglyph_opcode_decode(row.ig) = row.inst
                  /\ brainfuck_encode(row.inst) = row.bf
                  /\ ichiglyph_encode(row.inst) = row.ig
                  /\ ichiglyph_opcode_decode(ichiglyph_encode(row.inst)) = row.inst
                  /\ brainfuck_opcode_decode(brainfuck_encode(row.inst)) = row.inst
       /\ {EncodingTable[k].inst : k \in DOMAIN EncodingTable}
              = instruction_t \ {INST_NOP}
       /\ (last'.n = last.n + 1 /\ last'.instruction # INST_NOP)
              => LET target == IF engine = "bf2ig" THEN "ichiglyph"
                               ELSE "brainfuck"
                     opcode == SubSeq(stdout', Len(stdout) + 1, Len(stdout'))
                 IN  /\ stdout' = stdout \o opcode
                     /\ Len(opcode) = sizeof_opcode(target)
                     /\ opcode_decode(target, opcode) = last'.instruction
                     /\ last'.instruction
                            = InstAt(SourceSyntax(engine), source, ip)]_vars

\* A transpiler has translated a loop and returned
C13_Witness ==
    /\ pc = "done" /\ ret = 0
    /\ \/ engine = "bf2ig" /\ source = <<"[", ",", "]">>
          /\ stdout = <<"l", "1", "1", "I", "I", "1">>
       \/ engine = "ig2bf" /\ source = <<"l", "1", "1", "l", "I", "1">>
          /\ stdout = <<"[", ".", "]">>

\* What the environment does to a run, not the program: memory runs out, or
\* the process is killed
EnvironmentFaults == {"oom", "killed"}

\* C14: when the Brainfuck interpreter has run a program and the Ichiglyph
\* interpreter has run its translation on the same input, and neither run
\* was ended by the environment, the two runs wrote the same bytes, read the
\* same bytes, left the same data memory and data pointer, and ended for the
\* same reason.
C14_InterpretersAgree ==
    (/\ twin # NoTwin
     /\ engine = "ichiglyph"
     /\ Ended
     /\ Reason \notin EnvironmentFaults
     /\ twin.observed.reason \notin EnvironmentFaults)
        => Observed = twin.observed

\* C15: once the program is mapped, the instruction pointer is within
\* 0 .. len(Program) in every state, the states after an early end of the run
\* (end of input, out of memory, unmatched jump) included, and the run loop
\* is over exactly when ip = len(Program).
C15_CursorWithinProgram ==
    pc # "load" =>
        /\ 0 <= ip /\ ip <= program_size
        /\ pc = "run" => (~(ip < program_size) <=> ip = program_size)

\* The step is a dispatch of a cell operation whose call returned 0
CellWritten ==
    /\ Running
    /\ instruction \in {INST_VAL_INC, INST_VAL_DEC, INST_VAL_ACCEPT}
    /\ last'.n = last.n + 1
    /\ last'.outcome \in {"next", "outside"}

\* C16: after every IncrementCell, DecrementCell or InputCell whose call
\* returned 0, the buffer is at least dp + 1 cells long, so that the cell
\* written lies inside it (data_bound returning 0 implies dp < data->size).
C16_WrittenCellInsideBuffer ==
    [][CellWritten => (data'.size >= dp + 1 /\ dp < data'.size)]_vars

\* C17: the buffer is empty when the run starts, and no dispatch decreases
\* data->size or, unless the allocation failed, the length of the block that
\* holds the buffer.
C17_BufferNeverShrinks ==
    [][/\ pc = "load" => (data.size = 0 /\ data.allocated = 0)
       /\ last'.n = last.n + 1 =>
              /\ data'.size >= data.size
              /\ last'.outcome # "oom" =>
                     data'.allocated >= data.allocated]_vars

\* C18: a dispatch of IncrementCell, DecrementCell or InputCell in which
\* growing the buffer fails writes the fault to standard error and ends the
\* run loop (ip at or past the end of the program) with dp and the output
\* unchanged and the buffer lost (data->data is NULL); after it no
\* instruction is dispatched, and the data memory is not touched until
\* data_done discards it.
C18_OutOfMemoryEndsRun ==
    [][/\ (last'.n = last.n + 1 /\ last'.outcome = "oom")
              => /\ instruction \in {INST_VAL_INC, INST_VAL_DEC, INST_VAL_ACCEPT}
                 /\ stderr' = Append(stderr, "Out of memory")
                 /\ pc' = "run"
                 /\ ip' >= program_size
                 /\ ~Running'
                 /\ data' = [data EXCEPT !.data = NULL, !.allocated = 0]
                 /\ UNCHANGED <<dp, stdout>>
       /\ last.outcome = "oom"
              => /\ last' = last /\ hits' = hits
                 /\ UNCHANGED <<dp, stdout, stderr, stdin>>
                 /\ data' = data \/ (pc' = "done" /\ data' = data_done)]_vars

\* Growing the buffer failed in a dispatch that was not the last instruction
\* of the program, and main has returned
C18_Witness ==
    /\ last.outcome = "oom"
    /\ last.ip + 1 < program_size
    /\ hits[last.ip + 1] = 0
    /\ stderr = <<"Out of memory">>
    /\ pc = "done"

\* The characters opcodes are made of, and some that no opcode holds
Characters ==
    {">", "<", "+", "-", ".", ",", "[", "]", "l", "I", "1", "x", " ", "0"}

\* C19: every opcode unit decodes to one of the nine instructions (checked
\* over Characters when a run starts, and on the unit of every dispatch); a
\* unit that is none of the eight opcodes of its language decodes to NoOp; and a
\* dispatch of NoOp advances ip by one and changes nothing else (data
\* memory, dp, standard input, output and error, the process alive).
C19_DecodeTotalNopIdle ==
    [][/\ pc = "load" =>
              /\ \A c \in Characters :
                     /\ brainfuck_opcode_decode(<<c>>) \in instruction_t
                     /\ (\A k \in DOMAIN EncodingTable :
                            EncodingTable[k].bf # <<c>>)
                            => brainfuck_opcode_decode(<<c>>) = INST_NOP
              /\ \A c \in Characters, d \in Characters :
                     /\ ichiglyph_opcode_decode(<<c, d>>) \in instruction_t
                     /\ (\A k \in DOMAIN EncodingTable :
                            EncodingTable[k].ig # <<c, d>>)
                            => ichiglyph_opcode_decode(<<c, d>>) = INST_NOP
       /\ (Running /\ last'.n = last.n + 1)
              => /\ instruction \in instruction_t
                 /\ (\A k \in DOMAIN EncodingTable :
                        Fetch(engine, source, ip) \notin
                            {EncodingTable[k].bf, EncodingTable[k].ig})
                        => instruction = INST_NOP
       /\ (Running /\ instruction = INST_NOP /\ last'.n = last.n + 1)
              => /\ ip' = ip + 1
                 /\ pc' = "run"
                 /\ OnlyHit(ip)
                 /\ UNCHANGED <<data, dp, heap, stdin, consumed, stdout,
                                stderr, ret, written>>]_vars

\* A program with units that are no opcodes has run to its end, the last of
\* them dispatched after a cell was written
C19_Witness ==
    /\ pc = "done" /\ ret = 0
    /\ \E i \in DOMAIN hits, j \in DOMAIN hits :
           /\ i < j
           /\ InstAt(engine, source, i) = INST_VAL_INC /\ hits[i] = 1
           /\ InstAt(engine, source, j) = INST_NOP /\ hits[j] = 1
    /\ stdout = <<1>>

\* C20: a dispatch of MovePointerForward leaves dp at its value before plus
\* one, as an unbounded integer: dp never wraps around to 0.
C20_PointerForwardNeverWraps ==
    [][(Running /\ instruction = INST_DP_INC /\ last'.n = last.n + 1)
           => dp' = dp + 1]_vars

\* The jump table of the running program: the partner the stack matcher
\* gives the bracket at index i, or -1 for a bracket without partner
JumpTable(i) ==
    IF \E m \in Pairs : m[1] = i
    THEN (CHOOSE m \in Pairs : m[1] = i)[2]
    ELSE IF \E m \in Pairs : m[2] = i
    THEN (CHOOSE m \in Pairs : m[2] = i)[1]
    ELSE -1

\* C21: every dispatch of a jump by the linear scan is the step an engine
\* with a precomputed jump table takes from the same state: a jump that is
\* not taken goes to the next instruction, a jump taken goes to the
\* instruction after the partner in the table, and a jump taken from a
\* bracket without partner ends the run with the process alive; data
\* memory, dp and the streams are unchanged.  (The other instructions are
\* the same in both engines, so the runs then agree on output, input
\* consumed, final tape and termination.)
C21_LinearScanMatchesJumpTable ==
    [][(/\ Running
        /\ instruction \in {INST_JMP_FORWARD, INST_JMP_BACK}
        /\ last'.n = last.n + 1)
           => LET taken == IF instruction = INST_JMP_FORWARD
                           THEN data_get(data, dp) = 0
                           ELSE data_get(data, dp) # 0
              IN  /\ pc' = "run"
                  /\ UNCHANGED <<data, dp, stdout, stderr, stdin, consumed>>
                  /\ IF ~taken THEN ip' = ip + 1
                     ELSE IF JumpTable(ip) # -1 THEN ip' = JumpTable(ip) + 1
                     ELSE ip' >= program_size]_vars

\* The step is a call of data_inc, data_dec or data_set that returned 0
DataWritten ==
    /\ DataLive
    /\ last'.n = last.n + 1
    /\ last'.instruction \in {"data_inc", "data_dec", "data_set"}
    /\ last'.outcome \in {"next", "outside"}

\* C22: a call of data_inc, data_dec or data_set that returns 0 and found
\* dp >= data->size leaves the size at dp + 1 + 32768, every cell of
\* [old size, new size) other than the one it wrote at 0 and every cell of
\* [0, old size) with its value; a call that found dp < data->size leaves
\* the size and every cell other than the one it wrote unchanged.
C22_GrowthSizeAndContents ==
    [][DataWritten =>
           IF dp >= data.size
           THEN /\ data'.size = dp + 1 + DATA_GRANULARITY
                /\ \A i \in CellIndices \ {dp} :
                       /\ (data.size <= i /\ i < data'.size)
                              => data_get(data', i) = 0
                       /\ i < data.size
                              => data_get(data', i) = data_get(data, i)
           ELSE /\ data'.size = data.size
                /\ \A i \in CellIndices \ {dp} :
                       data_get(data', i) = data_get(data, i)]_vars

\* The instructions that only read the data memory or move the pointer
ReadOnly ==
    {INST_VAL_OUTPUT, INST_JMP_FORWARD, INST_JMP_BACK, INST_DP_INC, INST_DP_DEC}

\* C23: a dispatch of INST_VAL_OUTPUT, INST_JMP_FORWARD, INST_JMP_BACK,
\* INST_DP_INC or INST_DP_DEC leaves the size of the buffer, the block that
\* holds it and every cell unchanged; with dp at or beyond data->size the
\* cell reads 0: the output appends the byte 0, the forward jump is taken
\* and the backward jump falls through.
C23_ReadsNeverGrow ==
    [][(Running /\ instruction \in ReadOnly /\ last'.n = last.n + 1)
           => /\ data' = data
              /\ heap' = heap
              /\ written' = written
              /\ dp >= data.size
                     => /\ last'.val = 0
                        /\ instruction = INST_VAL_OUTPUT
                               => stdout' = Append(stdout, 0)
                        /\ instruction = INST_JMP_FORWARD
                               => last'.outcome # "next"
                        /\ instruction = INST_JMP_BACK
                               => last'.outcome = "next" /\ ip' = ip + 1]_vars

\* +<. : the output reads at dp = SIZE_MAX, beyond the buffer that the
\* increment at 0 allocated, and the buffer is as the increment left it
C23_Witness ==
    /\ last.instruction = INST_VAL_OUTPUT
    /\ last.n = 3
    /\ dp = SIZE_MAX
    /\ data.size = 1 + DATA_GRANULARITY
    /\ data_get(data, 0) = 1
    /\ stdout = <<0>>

\* C24: a dispatch of INST_VAL_ACCEPT with a next byte b on standard input,
\* after which the run goes on with the next instruction, has consumed
\* exactly the byte b and left the cell at dp holding b, for b = 255 and
\* b = 0 as for every other byte; dp is unchanged.
C24_InputStoresByte ==
    [][(Running /\ instruction = INST_VAL_ACCEPT /\ stdin # << >>
        /\ last'.n = last.n + 1 /\ pc' = "run" /\ ip' = ip + 1)
           => /\ stdin' = Tail(stdin)
              /\ consumed' = Append(consumed, Head(stdin))
              /\ dp' = dp
              /\ data_get(data', dp) = Head(stdin)]_vars

\* The jump at ip finds its condition false: an open bracket on a cell that
\* is not 0, a close bracket on a cell that is 0
FallsThrough ==
    \/ instruction = INST_JMP_FORWARD /\ data_get(data, dp) # 0
    \/ instruction = INST_JMP_BACK /\ data_get(data, dp) = 0

\* The program ]+[ in the language of the engine
CloseIncOpen ==
    IF engine = "brainfuck" THEN <<"]", "+", "[">>
    ELSE bf2ig(<<"]", "+", "[">>)

\* C25: the dispatch of a jump whose condition is false adds 1 to ip without
\* a scan (the process lives and the dispatch is neither a jump nor the end
\* of the run) and leaves the data memory, dp, the input, the output and the
\* error stream unchanged, for brackets with a partner and without.
C25_FalseJumpFallsThrough ==
    [][(Running /\ FallsThrough /\ last'.n = last.n + 1)
           => /\ ip' = ip + 1
              /\ pc' = "run"
              /\ last'.outcome = "next"
              /\ OnlyHit(ip)
              /\ UNCHANGED <<data, dp, heap, written, stdin, consumed, stdout,
                             stderr, ret>>]_vars

\* ]+[ : the stray close bracket on a zero cell and the stray open bracket
\* on a cell holding 1 have both been passed, one dispatch each
C25_Witness ==
    /\ source = CloseIncOpen
    /\ pc = "run"
    /\ ip = 3
    /\ last.n = 3
    /\ last.instruction = INST_JMP_FORWARD
    /\ last.val = 1
    /\ seen[0] = 0
    /\ JumpTable(0) = -1 /\ JumpTable(2) = -1

\* The instructions a text holds, unit by unit
Decoded(e, text) ==
    [k \in 1 .. ProgramSize(e, text) |-> InstAt(e, text, k - 1)]

IsInstruction(inst) == inst # INST_NOP

\* The units of a text, one after the other
Units(e, text) == [k \in 1 .. ProgramSize(e, text) |-> Fetch(e, text, k - 1)]

IsOpcode(e, unit) == opcode_decode(e, unit) # INST_NOP

\* A text without the units that are no instruction (and, for Ichiglyph,
\* without the byte after the last whole unit)
Stripped(e, text) ==
    IF e = "brainfuck"
    THEN SelectSeq(text, LAMBDA c : IsOpcode("brainfuck", <<c>>))
    ELSE Flatten(SelectSeq(Units("ichiglyph", text),
                           LAMBDA u : IsOpcode("ichiglyph", u)))

\* C26: when a transpiler has returned, its output holds one opcode per
\* instruction of its source, in order, and nothing else (for bf2ig an even
\* number of characters, two per instruction); the output of a transpiler
\* run on the output of the other one is the source of that one without
\* the units that are no instruction; and it is that source unchanged when
\* that source was itself the output of a transpiler.
C26_TranspilersDropOnlyNops ==
    (engine \in {"ig2bf", "bf2ig"} /\ pc = "done")
        => LET from == SourceSyntax(engine)
               to == TargetSyntax(engine)
               kept == SelectSeq(Decoded(from, source), IsInstruction)
           IN  /\ Len(stdout) = sizeof_opcode(to) * Len(kept)
               /\ Decoded(to, stdout) = kept
               /\ engine = "bf2ig" => Len(stdout) % 2 = 0
               /\ Len(Texts) >= 1
                      => stdout = Stripped(to, Texts[Len(Texts)])
               /\ Len(Texts) >= 2 => stdout = Texts[Len(Texts)]

\* x[+ goes through bf2ig, ig2bf and bf2ig again
C26_Witness ==
    /\ engine = "bf2ig" /\ pc = "done"
    /\ Len(Texts) = 2
    /\ Texts[1] = <<"x", "[", "+">>
    /\ Texts[2] = <<"l", "1", "I", "l">>
    /\ source = <<"[", "+">>
    /\ stdout = <<"l", "1", "I", "l">>

\* The indices of the program whose opcode the dispatch at ip fetches: ip
\* itself and, when the jump is taken, those of the scan
Fetched ==
    {ip} \cup
    (IF instruction = INST_JMP_FORWARD /\ data_get(data, dp) = 0
     THEN UNION {ForwardScan(engine, source, ip, 1, past_end, {}).reads :
                     past_end \in PastEndReads}
     ELSE IF instruction = INST_JMP_BACK /\ data_get(data, dp) # 0
     THEN BackwardScan(engine, source, ip, 1, {}).reads
     ELSE {})

\* The bytes of the source file, counted from 1, that the fetch of the
\* opcode at index i copies
BytesOf(i) == (i * sizeof_opcode(engine) + 1) .. ((i + 1) * sizeof_opcode(engine))

\* C27: the Ichiglyph interpreter takes a file of n bytes for n div 2
\* opcodes, and when n is odd no dispatch, the scans of the jumps included,
\* fetches the last byte of the file.
C27_DanglingByteNeverFetched ==
    (engine = "ichiglyph" /\ Running)
        => /\ program_size = Len(source) \div 2
           /\ Len(source) % 2 = 1
                  => \A i \in Fetched : Len(source) \notin BytesOf(i)

\* C28: every opcode a dispatch fetches, in the run loop and in the forward
\* and backward scans, is at an index of 0 .. program_size - 1.
C28_ProgramReadsInBounds ==
    Running => Fetched \subseteq 0 .. program_size - 1

\* The instructions that write a cell
CellWriters == {INST_VAL_INC, INST_VAL_DEC, INST_VAL_ACCEPT}

\* C29: a dispatch of INST_VAL_INC, INST_VAL_DEC or INST_VAL_ACCEPT after
\* which the run goes on leaves every cell other than the one at dp, and
\* the memory outside the buffer, as they were; a dispatch of INST_DP_INC
\* leaves dp + 1 in dp, a dispatch of INST_DP_DEC leaves dp - 1, and every
\* other step of a run leaves dp unchanged.
C29_OnlyCellAtDpWritten ==
    [][/\ (Running /\ instruction \in CellWriters /\ last'.n = last.n + 1
           /\ pc' = "run" /\ ip' = ip + 1)
              => /\ \A i \in CellIndices \ {dp} :
                        data_get(data', i) = data_get(data, i)
                 /\ heap' = heap
       /\ (pc = "run" /\ pc' # "load")
              => dp' = (IF last'.n = last.n
                        THEN dp
                        ELSE CASE instruction = INST_DP_INC -> dp + 1
                               [] instruction = INST_DP_DEC -> dp - 1
                               [] OTHER -> dp)]_vars

\* The program holds no INST_JMP_BACK
NoJmpBack == Indices(INST_JMP_BACK) = {}

\* main has returned or the process was killed
Terminated == pc \in {"done", "killed"}

\* C30: in a program without INST_JMP_BACK every dispatch leaves ip greater
\* than it was (or the process is killed in it), no index is dispatched
\* twice, there are at most program_size dispatches, and the process ends;
\* in every program a forward scan entered at ip moves ip at most
\* program_size - ip times and a backward scan entered at ip at most ip
\* times.
C30_NoBackJumpTerminates ==
    /\ [][/\ (NoJmpBack /\ last'.n = last.n + 1)
              => /\ pc' = "killed" \/ ip' > ip
                 /\ hits'[ip] = 1
                 /\ last'.n <= program_size
          /\ (Running /\ instruction = INST_JMP_FORWARD)
              => \A past_end \in PastEndReads :
                     Cardinality(ForwardScan(engine, source, ip, 1,
                                             past_end, {}).reads)
                         <= program_size - ip
          /\ (Running /\ instruction = INST_JMP_BACK)
              => Cardinality(BackwardScan(engine, source, ip, 1, {}).reads)
                     <= ip]_vars
    /\ (NoJmpBack => <>Terminated)

\* +[. has run to its end in three dispatches, the open bracket passed
C30_Witness ==
    /\ pc = "done"
    /\ NoJmpBack
    /\ program_size = 3
    /\ last.n = 3
    /\ hits[1] = 1 /\ InstAt(engine, source, 1) = INST_JMP_FORWARD
    /\ stdout = <<1>>

====
